---- MODULE Spec2Model ----
(***************************************************************************)
(* Per-chat playback queue and playback-state machine of MusicHandler      *)
(* (src/music_handler.py), with the Discord voice client it drives.        *)
(*                                                                         *)
(* The dictionaries of MusicHandler are functions whose DOMAIN is the set  *)
(* of keys present.  A track is identified by the order in which           *)
(* search_and_play created its song_data (1, 2, ...).  Every `await` that  *)
(* really suspends (the resolver lookup of _search_song, the stream lookup *)
(* of _get_audio_source) separates two actions, so other handlers may run  *)
(* in between; code between two suspension points is one atomic step.      *)
(* stop_playback is suspended in voice_client.disconnect() between its     *)
(* clearing of the dictionaries and its removal of the stored voice        *)
(* client.  channel.connect() of play_command is taken to complete before  *)
(* any other handler of the same chat runs.  The completion callback of    *)
(* the player is taken to run where asyncio.create_task can schedule the   *)
(* _play_next task it creates.                                             *)
(*                                                                         *)
(* Utils.check_permissions and Utils.check_rate_limit (src/utils.py) are   *)
(* checked in specifications of their own, in which the music state is     *)
(* idle.  time.time() is counted in ticks and never runs backwards.        *)
(***************************************************************************)
EXTENDS Integers, Sequences, FiniteSets, TLC

\* ---------------------------------------------------------------- bounds
MaxTracks == 3        \* track identifiers available
MaxPlays == 2         \* tracks search_and_play creates in one behaviour
MaxQueue == 2         \* longest queue explored (re-insertion can grow it)
MaxPending == 1       \* undelivered completion callbacks / scheduled tasks
MaxInflight == 2      \* _play_next activations suspended at the same time
MaxSearching == 1     \* search_and_play calls suspended at the same time
MaxStopping == 1      \* stop_playback calls suspended at the same time
MaxSettings == 1      \* accepted set_loop_mode / set_playback_speed calls
MaxCompletions == 12  \* saturation of the completion counter
MaxClock == 3         \* ticks of time.time() explored
RateWindow == 2       \* ticks in the 60 seconds check_rate_limit looks back
MaxCommandsPerMinute == 1  \* config.MAX_COMMANDS_PER_MINUTE explored

\* ------------------------------------------------------------- constants
DiscordChat == "guild"
TelegramChat == "chat"
Chats == {DiscordChat, TelegramChat}
None == 0
TrackIds == 1..MaxTracks

Platform(c) == IF c = DiscordChat THEN "discord" ELSE "telegram"

\* speeds are exact tenths; nan is the float that compares false to all
Speed(v) == [nan |-> FALSE, v |-> v]
NaN == [nan |-> TRUE, v |-> 0]
SpeedLt(a, b) == ~a.nan /\ ~b.nan /\ a.v < b.v
SpeedLe(a, b) == ~a.nan /\ ~b.nan /\ a.v <= b.v
SpeedMin == 5
SpeedMax == 20
DefaultSpeed == 10
SpeedInputs == {Speed(4), Speed(15), Speed(30), NaN}

\* loop modes: 0 off, 1 song, 2 queue, 3..MaxLoopMode repeat N times
MaxLoopMode == 10
NoMode == 99
LoopInputs == {NoMode, 0 - 1, 1, 3, 11}

\* ------------------------------------------------------- dict operations
Has(d, k) == k \in DOMAIN d
Get(d, k, default) == IF k \in DOMAIN d THEN d[k] ELSE default
Put(d, k, v) == [x \in (DOMAIN d) \cup {k} |-> IF x = k THEN v ELSE d[x]]
Pop(d, k) == [x \in (DOMAIN d) \ {k} |-> d[x]]
EmptyDict == [x \in {} |-> None]

Min(a, b) == IF a < b THEN a ELSE b

VARIABLES
    queues,           \* self.queues: chat -> sequence of tracks
    current_songs,    \* self.current_songs: chat -> track
    loop_modes,       \* self.loop_modes: chat -> 0..10
    playback_speeds,  \* self.playback_speeds: chat -> speed
    voice_clients,    \* self.voice_clients: chat -> stored voice client
    connected,        \* ctx.voice_client is not None, per chat
    player,           \* state of the voice client's player, per chat
    playing,          \* track handed to the player (None if none)
    after_calls,      \* completion callbacks not yet delivered, per chat
    tasks,            \* _play_next tasks created and not yet started
    inflight,         \* songs held by suspended _play_next activations
    searching,        \* search_and_play calls suspended in _search_song
    stopping,         \* stop_playback calls suspended in disconnect()
    next_id,          \* tracks created so far
    scope,            \* the chats that receive operations in this
                      \* behaviour and the play requests that arrive
    settings_used,    \* accepted loop and speed settings so far
    hist,             \* history: snapshot, counters, failure flag
    rate_limits,      \* Utils.rate_limits: key -> kept timestamps
    current_time,     \* time.time(), in ticks
    calls,            \* history: key -> the calls made, with their results
    last_call         \* the last call of a Utils function and its result

vars == <<queues, current_songs, loop_modes, playback_speeds, voice_clients,
          connected, player, playing, after_calls, tasks, inflight,
          searching, stopping, next_id, scope, settings_used, hist,
          rate_limits, current_time, calls, last_call>>

\* the state of MusicHandler and its driver, and the state of Utils
music == <<queues, current_songs, loop_modes, playback_speeds, voice_clients,
           connected, player, playing, after_calls, tasks, inflight,
           searching, stopping, next_id, scope, settings_used, hist>>
utils == <<rate_limits, current_time, calls, last_call>>

program == <<queues, current_songs, loop_modes, playback_speeds,
             voice_clients>>
driver == <<connected, player, playing>>

\* -------------------------------------------------------------- readers
QueueOf(c) == Get(queues, c, <<>>)
CurrentOf(c) == Get(current_songs, c, None)
LoopOf(c) == Get(loop_modes, c, 0)
SpeedOf(c) == Get(playback_speeds, c, Speed(DefaultSpeed))

get_queue(c) ==
    [current |-> CurrentOf(c), queue |-> QueueOf(c),
     loop_mode |-> LoopOf(c), speed |-> SpeedOf(c)]

is_playing(c) == player[c] = "playing"
is_paused(c) == player[c] = "paused"

InflightCount(c) ==
    LET RECURSIVE Sum(_)
        Sum(S) == IF S = {} THEN 0
                  ELSE LET t == CHOOSE x \in S : TRUE
                       IN inflight[c][t] + Sum(S \ {t})
    IN Sum(TrackIds)

Pending(n) == n.live + n.stale

\* tracks the chat holds: its queue plus its current track
TracksHeld(c) ==
    Len(QueueOf(c)) + (IF Has(current_songs, c) THEN 1 ELSE 0)

\* nothing of chat c is in progress: no callback, task, activation, search
Settled(c) ==
    /\ Pending(after_calls[c]) = 0
    /\ Pending(tasks[c]) = 0
    /\ InflightCount(c) = 0
    /\ searching[c] = 0
    /\ stopping[c] = 0

\* history is recorded only in behaviours that start with rec set
NoHist == [rec |-> FALSE, mode |-> NoMode, current |-> None, queue |-> <<>>,
           completions |-> 0, popped |-> 0, skips |-> 0,
           failed |-> FALSE, depth |-> [t \in TrackIds |-> 0],
           toggles |-> 0]

\* ----------------------------------------------------------------- Init
NoCall == [fn |-> "none"]

\* Utils.__init__: self.rate_limits = {}
InitUtils ==
    /\ rate_limits = EmptyDict
    /\ current_time = 0
    /\ calls = EmptyDict
    /\ last_call = NoCall

InitCommon ==
    /\ queues = EmptyDict
    /\ current_songs = EmptyDict
    /\ loop_modes = EmptyDict
    /\ playback_speeds = EmptyDict
    /\ voice_clients = EmptyDict
    /\ connected = [c \in Chats |-> FALSE]
    /\ player = [c \in Chats |-> "none"]
    /\ playing = [c \in Chats |-> None]
    /\ after_calls = [c \in Chats |-> [live |-> 0, stale |-> 0]]
    /\ tasks = [c \in Chats |-> [live |-> 0, stale |-> 0]]
    /\ inflight = [c \in Chats |-> [t \in TrackIds |-> 0]]
    /\ searching = [c \in Chats |-> 0]
    /\ stopping = [c \in Chats |-> 0]
    /\ next_id = 0
    /\ settings_used = 0

Init ==
    /\ InitCommon
    /\ InitUtils
    /\ hist = NoHist
    /\ scope \in [chats : {{DiscordChat}, {TelegramChat}},
                 plays : {Min(MaxPlays, MaxTracks)}]

\* ------------------------------------------------------- history updates
HistPop(h, song) ==
    IF song = None \/ ~h.rec THEN h
    ELSE [h EXCEPT !.popped = Min(@ + 1, MaxTracks + 1)]

HistFail(h) == [h EXCEPT !.failed = h.rec]

\* depth[t]: how many tracks the advance that holds t has taken from the
\* queue so far (1 for the first, one more for each retry)
HistFirst(h, song) ==
    IF song = None \/ ~h.rec THEN h ELSE [h EXCEPT !.depth[song] = 1]

HistRetry(h, failed_song, song) ==
    IF song = None \/ ~h.rec THEN h
    ELSE [h EXCEPT !.depth[song] = Min(h.depth[failed_song] + 1, 3)]

HistSkip(h) == IF ~h.rec THEN h ELSE [h EXCEPT !.skips = Min(@ + 1, 2)]

HistCompletion(h) ==
    IF ~h.rec THEN h ELSE
    [h EXCEPT !.completions = Min(@ + 1, MaxCompletions)]

\* ------------------------------------------------------ queue operations
enqueue_at_head(q, song) == <<song>> \o q

\* self.queues[chat_id].append(song_data)
enqueue(q, song) == Append(q, song)

last_song(q) == q[Len(q)]

queue_kept(q) == q

\* song = self.queues[chat_id].pop(0)
next_song(q) == Head(q)
rest_of_queue(q) == Tail(q)

requeue_dropped(q, song) == q

\* self.queues[chat_id].append(self.current_songs[chat_id])   (loop queue)
requeue_at_tail(q, song) == Append(q, song)

\* self.queues[chat_id].insert(0, self.current_songs[chat_id])
requeue_at_head(q, song) == <<song>> \o q

shuffles_losing(q) == {Tail(q)}

\* random.shuffle: every rearrangement of the list
Shuffles(q) ==
    LET n == Len(q)
        Perms == {f \in [1..n -> 1..n] : \A i, j \in 1..n :
                                             i # j => f[i] # f[j]}
    IN {[i \in 1..n |-> q[f[i]]] : f \in Perms}

\* _play_next up to its first suspension (the await of _get_audio_source),
\* run on queue dictionary Q, current dictionary C and activations F
play_next_head(c, Q, C, F) ==
    IF Get(Q, c, <<>>) = <<>>
    THEN [queues |-> Q, current_songs |-> Pop(C, c), inflight |-> F,
          song |-> None]
    ELSE LET song == next_song(Q[c]) IN
         [queues |-> Put(Q, c, rest_of_queue(Q[c])),
          current_songs |-> Put(C, c, song),
          inflight |-> [F EXCEPT ![c][song] = @ + 1],
          song |-> song]

\* an activation may be suspended only while fewer than MaxInflight are
RoomFor(c, Q) == Get(Q, c, <<>>) # <<>> => InflightCount(c) < MaxInflight

\* voice_client.stop(): the player ends and its `after` callback is due
PlayerStopped(c, kind) ==
    /\ player' = [player EXCEPT ![c] = "none"]
    /\ playing' = [playing EXCEPT ![c] = None]
    /\ after_calls' = [after_calls EXCEPT ![c][kind] = @ + 1]

\* --------------------------------------------------------------- actions
\* search_and_play up to the await of _search_song; play_command joins
\* the caller's voice channel first, vplay_command does not
search_and_play_begin(c, joined) ==
    /\ c \in scope.chats
    /\ UNCHANGED utils
    /\ searching[c] < MaxSearching
    /\ next_id + searching[c] < scope.plays
    /\ joined => Platform(c) = "discord"
    /\ queues' = IF Has(queues, c) THEN queues ELSE Put(queues, c, <<>>)
    /\ connected' = IF joined THEN [connected EXCEPT ![c] = TRUE]
                    ELSE connected
    /\ searching' = [searching EXCEPT ![c] = @ + 1]
    /\ UNCHANGED <<current_songs, loop_modes, playback_speeds, voice_clients,
                   player, playing, after_calls, tasks, inflight, next_id,
                   scope, settings_used, hist, stopping>>

not_found_clearing(c) ==
    /\ c \in scope.chats
    /\ UNCHANGED utils
    /\ searching[c] > 0
    /\ searching' = [searching EXCEPT ![c] = @ - 1]
    /\ queues' = Put(queues, c, <<>>)
    /\ UNCHANGED <<current_songs, loop_modes, playback_speeds,
                   voice_clients, driver, after_calls, tasks, inflight,
                   stopping, next_id, scope, settings_used, hist>>

\* _search_song returned nothing: raise Exception("Song not found!")
search_and_play_not_found(c) ==
    /\ c \in scope.chats
    /\ UNCHANGED utils
    /\ searching[c] > 0
    /\ searching' = [searching EXCEPT ![c] = @ - 1]
    /\ UNCHANGED <<program, driver, after_calls, tasks, inflight, next_id,
                   scope, settings_used, hist, stopping>>

\* _search_song returned a song: append it, start it if nothing is current
search_and_play_found(c) ==
    /\ c \in scope.chats
    /\ UNCHANGED utils
    /\ searching[c] > 0
    /\ searching' = [searching EXCEPT ![c] = @ - 1]
    /\ IF ~Has(queues, c)
       THEN \* self.queues[chat_id] raises KeyError
            /\ UNCHANGED <<queues, current_songs, inflight, next_id, hist>>
       ELSE LET song == next_id + 1
                Q == Put(queues, c, enqueue(queues[c], song))
                r == play_next_head(c, Q, current_songs, inflight)
            IN /\ Len(queues[c]) < MaxQueue
               /\ next_id' = song
               /\ IF ~Has(current_songs, c)
                  THEN /\ RoomFor(c, Q)
                       /\ queues' = r.queues
                       /\ current_songs' = r.current_songs
                       /\ inflight' = r.inflight
                       /\ hist' = HistFirst(HistPop(hist, r.song), r.song)
                  ELSE /\ queues' = Q
                       /\ UNCHANGED <<current_songs, inflight, hist>>
    /\ UNCHANGED <<loop_modes, playback_speeds, voice_clients, driver,
                   after_calls, tasks, scope, settings_used, stopping>>

\* a task created by after_playing starts running _play_next
play_next_task(c, kind) ==
    /\ c \in scope.chats
    /\ UNCHANGED utils
    /\ tasks[c][kind] > 0
    /\ RoomFor(c, queues)
    /\ LET r == play_next_head(c, queues, current_songs, inflight)
       IN /\ queues' = r.queues
          /\ current_songs' = r.current_songs
          /\ inflight' = r.inflight
          /\ hist' = HistFirst(HistPop(hist, r.song), r.song)
    /\ tasks' = [tasks EXCEPT ![c][kind] = @ - 1]
    /\ UNCHANGED <<loop_modes, playback_speeds, voice_clients, driver,
                   after_calls, searching, stopping, next_id, scope,
                   settings_used>>

\* a suspended _play_next resumes with the stream and starts the track:
\* _play_discord connects if needed, plays and stores the voice client;
\* _play_telegram only logs
play_next_started(c, song) ==
    /\ c \in scope.chats
    /\ UNCHANGED utils
    /\ inflight[c][song] > 0
    /\ inflight' = [inflight EXCEPT ![c][song] = @ - 1]
    /\ IF Platform(c) = "discord"
       THEN /\ ~is_playing(c)
            /\ connected' = [connected EXCEPT ![c] = TRUE]
            /\ player' = [player EXCEPT ![c] = "playing"]
            /\ playing' = [playing EXCEPT ![c] = song]
            /\ voice_clients' = Put(voice_clients, c, TRUE)
       ELSE UNCHANGED <<connected, player, playing, voice_clients>>
    /\ UNCHANGED <<queues, current_songs, loop_modes, playback_speeds,
                   after_calls, tasks, searching, stopping, next_id, scope,
                   settings_used, hist>>

\* a suspended _play_next resumes with an exception (no stream, user not
\* in a voice channel, voice client already playing, pytgcalls missing):
\* the handler of _play_next tries the next queued song, if any
play_next_failed(c, song) ==
    /\ c \in scope.chats
    /\ UNCHANGED utils
    /\ inflight[c][song] > 0
    /\ LET F == [inflight EXCEPT ![c][song] = @ - 1]
           r == play_next_head(c, queues, current_songs, F)
       IN IF QueueOf(c) # <<>>
          THEN /\ queues' = r.queues
               /\ current_songs' = r.current_songs
               /\ inflight' = r.inflight
               /\ hist' = HistRetry(HistFail(HistPop(hist, r.song)),
                                         song, r.song)
          ELSE /\ inflight' = F
               /\ hist' = HistFail(hist)
               /\ UNCHANGED <<queues, current_songs>>
    /\ UNCHANGED <<loop_modes, playback_speeds, voice_clients, driver,
                   after_calls, tasks, searching, stopping, next_id, scope,
                   settings_used>>

\* the player reaches the end of the stream
track_ends(c) ==
    /\ c \in scope.chats
    /\ UNCHANGED utils
    /\ Platform(c) = "discord"
    /\ is_playing(c)
    /\ Pending(after_calls[c]) < MaxPending
    /\ PlayerStopped(c, "live")
    /\ UNCHANGED <<program, connected, tasks, inflight, searching, stopping,
                   next_id, scope, settings_used, hist>>

\* self.loop_modes[chat_id] -= 1
next_loop_mode(loop_mode) == loop_mode - 1

\* the loop handling of after_playing (lines 194-206): the dictionaries it
\* leaves, and whether it raised before creating the task
loop_policy(c) ==
    LET loop_mode == LoopOf(c)
        same == [queues |-> queues, loop_modes |-> loop_modes,
                 raised |-> FALSE]
    IN IF loop_mode = 1 THEN same
       ELSE IF loop_mode > 1 THEN
           IF loop_mode = 2 THEN
               IF Has(current_songs, c) THEN
                   IF Has(queues, c)
                   THEN [same EXCEPT !.queues = Put(queues, c,
                            requeue_at_tail(queues[c], current_songs[c]))]
                   ELSE [same EXCEPT !.raised = TRUE]
               ELSE same
           ELSE
               LET L == Put(loop_modes, c, next_loop_mode(loop_mode)) IN
               IF Has(current_songs, c) THEN
                   IF Has(queues, c)
                   THEN [queues |-> Put(queues, c,
                            requeue_at_head(queues[c], current_songs[c])),
                         loop_modes |-> L, raised |-> FALSE]
                   ELSE [queues |-> queues, loop_modes |-> L,
                         raised |-> TRUE]
               ELSE [queues |-> queues, loop_modes |-> L, raised |-> FALSE]
       ELSE same

\* the completion callback of a started track is delivered
after_playing(c, kind) ==
    /\ c \in scope.chats
    /\ UNCHANGED utils
    /\ after_calls[c][kind] > 0
    /\ Pending(tasks[c]) < MaxPending
    /\ LET p == loop_policy(c)
       IN /\ Len(Get(p.queues, c, <<>>)) <= MaxQueue
          /\ queues' = p.queues
          /\ loop_modes' = p.loop_modes
          /\ tasks' = IF p.raised THEN tasks
                      ELSE [tasks EXCEPT ![c][kind] = @ + 1]
    /\ after_calls' = [after_calls EXCEPT ![c][kind] = @ - 1]
    /\ hist' = HistCompletion(hist)
    /\ UNCHANGED <<current_songs, playback_speeds, voice_clients, driver,
                   inflight, searching, stopping, next_id, scope,
                   settings_used>>

skip_song(c) ==
    /\ c \in scope.chats
    /\ UNCHANGED utils
    /\ IF Platform(c) = "discord" /\ Has(voice_clients, c) /\ is_playing(c)
       THEN /\ Pending(after_calls[c]) < MaxPending
            /\ PlayerStopped(c, "live")
            /\ hist' = HistSkip(hist)
            /\ UNCHANGED <<program, connected, tasks, inflight, searching,
                           stopping, next_id, scope, settings_used>>
       ELSE IF QueueOf(c) # <<>>
       THEN LET r == play_next_head(c, queues, current_songs, inflight)
            IN /\ RoomFor(c, queues)
               /\ queues' = r.queues
               /\ current_songs' = r.current_songs
               /\ inflight' = r.inflight
               /\ hist' = HistSkip(HistFirst(HistPop(hist, r.song), r.song))
               /\ UNCHANGED <<loop_modes, playback_speeds, voice_clients,
                              driver, after_calls, tasks, searching, stopping,
                              next_id, scope, settings_used>>
       ELSE /\ hist' = HistSkip(hist)
            /\ UNCHANGED <<program, driver, after_calls, tasks, inflight,
                           searching, stopping, next_id, scope,
                           settings_used>>

stop_clears_all(d, c) == EmptyDict

\* what stop_playback leaves of a dictionary it clears
stop_clears(d, c) == Pop(d, c)

stop_forgetting_speed(c) ==
    /\ c \in scope.chats
    /\ UNCHANGED utils
    /\ queues' = stop_clears(queues, c)
    /\ current_songs' = stop_clears(current_songs, c)
    /\ loop_modes' = stop_clears(loop_modes, c)
    /\ playback_speeds' = stop_clears(playback_speeds, c)
    /\ UNCHANGED <<voice_clients, driver, after_calls, tasks, inflight,
                   searching, stopping, next_id, scope, settings_used, hist>>

\* stop_playback up to its await of voice_client.disconnect(); callbacks
\* still undelivered when it runs arrive after it; without a stored voice
\* client it returns at once
stop_playback(c) ==
    /\ c \in scope.chats
    /\ UNCHANGED utils
    /\ queues' = stop_clears(queues, c)
    /\ current_songs' = stop_clears(current_songs, c)
    /\ loop_modes' = stop_clears(loop_modes, c)
    /\ IF Platform(c) = "discord" /\ Has(voice_clients, c)
       THEN /\ (is_playing(c) \/ is_paused(c)) =>
                   Pending(after_calls[c]) < MaxPending
            /\ stopping[c] < MaxStopping
            /\ after_calls' = [after_calls EXCEPT ![c] =
                   [live |-> 0,
                    stale |-> @.stale + @.live +
                        (IF is_playing(c) \/ is_paused(c) THEN 1 ELSE 0)]]
            /\ player' = [player EXCEPT ![c] = "none"]
            /\ playing' = [playing EXCEPT ![c] = None]
            /\ stopping' = [stopping EXCEPT ![c] = @ + 1]
            /\ UNCHANGED connected
       ELSE /\ after_calls' = [after_calls EXCEPT ![c] =
                   [live |-> 0, stale |-> @.stale + @.live]]
            /\ UNCHANGED <<driver, stopping>>
    /\ UNCHANGED <<playback_speeds, voice_clients, tasks, inflight, searching,
                   next_id, scope, settings_used, hist>>

\* disconnect() has returned (it ends a player started meanwhile and
\* releases the connection): self.voice_clients.pop(chat_id, None)
stop_playback_disconnected(c) ==
    /\ c \in scope.chats
    /\ UNCHANGED utils
    /\ stopping[c] > 0
    /\ stopping' = [stopping EXCEPT ![c] = @ - 1]
    /\ IF is_playing(c) \/ is_paused(c)
       THEN /\ Pending(after_calls[c]) < MaxPending
            /\ PlayerStopped(c, "stale")
       ELSE UNCHANGED <<player, playing, after_calls>>
    /\ connected' = [connected EXCEPT ![c] = FALSE]
    /\ voice_clients' = stop_clears(voice_clients, c)
    /\ UNCHANGED <<queues, current_songs, loop_modes, playback_speeds, tasks,
                   inflight, searching, next_id, scope, settings_used, hist>>

pause_playback(c) ==
    /\ c \in scope.chats
    /\ UNCHANGED utils
    /\ IF Platform(c) = "discord" /\ Has(voice_clients, c) /\ is_playing(c)
       THEN /\ player' = [player EXCEPT ![c] = "paused"]
       ELSE /\ UNCHANGED player
    /\ UNCHANGED <<program, connected, playing, after_calls, tasks, inflight,
                   searching, stopping, next_id, scope, settings_used, hist>>

resume_playback(c) ==
    /\ c \in scope.chats
    /\ UNCHANGED utils
    /\ IF Platform(c) = "discord" /\ Has(voice_clients, c) /\ is_paused(c)
       THEN /\ player' = [player EXCEPT ![c] = "playing"]
       ELSE /\ UNCHANGED player
    /\ UNCHANGED <<program, connected, playing, after_calls, tasks, inflight,
                   searching, stopping, next_id, scope, settings_used, hist>>

\* the mode set_loop_mode assigns for argument `mode` (NoMode: None)
toggled_mode(c, mode) ==
    IF mode = NoMode THEN (IF LoopOf(c) = 0 THEN 2 ELSE 0) ELSE mode

loop_mode_unchecked_above(m) == m < 0

loop_mode_rejected(m) == m < 0 \/ m > MaxLoopMode

\* what set_loop_mode returns: the error message or a confirmation
set_loop_mode_returns(c, mode) ==
    IF loop_mode_rejected(toggled_mode(c, mode)) THEN "error" ELSE "set"

set_loop_mode(c, mode) ==
    /\ c \in scope.chats
    /\ UNCHANGED utils
    /\ LET m == toggled_mode(c, mode)
       IN IF loop_mode_rejected(m)
          THEN UNCHANGED <<loop_modes, settings_used>>
          ELSE /\ settings_used < MaxSettings
               /\ settings_used' = settings_used + 1
               /\ loop_modes' = Put(loop_modes, c, m)
    /\ UNCHANGED <<queues, current_songs, playback_speeds, voice_clients,
                   driver, after_calls, tasks, inflight, searching, stopping,
                   next_id, scope, hist>>

\* speed < 0.5 or speed > 2.0
speed_rejected(speed) ==
    SpeedLt(speed, Speed(SpeedMin)) \/ SpeedLt(Speed(SpeedMax), speed)

\* the value set_playback_speed returns
set_playback_speed_returns(speed) == ~speed_rejected(speed)

set_playback_speed(c, speed) ==
    /\ c \in scope.chats
    /\ UNCHANGED utils
    /\ IF speed_rejected(speed)
       THEN /\ UNCHANGED <<program, driver, after_calls, tasks, inflight,
                           searching, stopping, next_id, scope, settings_used,
                           hist>>
       ELSE /\ settings_used < MaxSettings
            /\ settings_used' = settings_used + 1
            /\ playback_speeds' = Put(playback_speeds, c, speed)
            /\ IF Has(current_songs, c)
               THEN IF ~Has(queues, c)
                    THEN \* self.queues[chat_id] raises KeyError
                         /\ UNCHANGED <<queues, driver, after_calls>>
                    ELSE /\ Len(queues[c]) < MaxQueue
                         /\ queues' = Put(queues, c,
                               requeue_at_head(queues[c], current_songs[c]))
                         /\ IF /\ Platform(c) = "discord"
                               /\ Has(voice_clients, c)
                               /\ is_playing(c)
                            THEN /\ Pending(after_calls[c]) < MaxPending
                                 /\ PlayerStopped(c, "live")
                                 /\ UNCHANGED connected
                            ELSE UNCHANGED <<driver, after_calls>>
               ELSE /\ UNCHANGED <<queues, driver, after_calls>>
            /\ UNCHANGED <<current_songs, loop_modes, voice_clients, tasks,
                           inflight, searching, stopping, next_id, scope,
                           hist>>

\* the value shuffle_queue returns
shuffle_queue_returns(c) == Has(queues, c) /\ queues[c] # <<>>

shuffle_queue(c) ==
    /\ c \in scope.chats
    /\ UNCHANGED utils
    /\ IF Has(queues, c) /\ queues[c] # <<>>
       THEN /\ \E q \in Shuffles(queues[c]) : queues' = Put(queues, c, q)
       ELSE /\ UNCHANGED queues
    /\ UNCHANGED <<current_songs, loop_modes, playback_speeds, voice_clients,
                   driver, after_calls, tasks, inflight, searching, stopping,
                   next_id, scope, settings_used, hist>>

\* -------------------------------------------------------- specification
Kinds == {"live", "stale"}

Next ==
    \E c \in Chats :
        \/ \E joined \in BOOLEAN : search_and_play_begin(c, joined)
        \/ search_and_play_not_found(c)
        \/ search_and_play_found(c)
        \/ \E kind \in Kinds : play_next_task(c, kind)
        \/ \E song \in TrackIds : play_next_started(c, song)
        \/ \E song \in TrackIds : play_next_failed(c, song)
        \/ track_ends(c)
        \/ \E kind \in Kinds : after_playing(c, kind)
        \/ skip_song(c)
        \/ stop_playback(c)
        \/ stop_playback_disconnected(c)
        \/ pause_playback(c)
        \/ resume_playback(c)
        \/ \E mode \in LoopInputs : set_loop_mode(c, mode)
        \/ \E speed \in SpeedInputs : set_playback_speed(c, speed)
        \/ shuffle_queue(c)

Spec == Init /\ [][Next]_vars

\* ------------------------------------------- completions without commands
\* A Discord chat that plays its first track, with any queue of other
\* tracks (one slot left for the re-inserted track) and any loop mode, and
\* receives no command: tracks end, callbacks are delivered, tasks run,
\* starts succeed or fail.
DistinctSeqs(S, n) ==
    UNION {{q \in [1..k -> S] : \A i, j \in 1..k : i # j => q[i] # q[j]} :
           k \in 0..n}

InitLoop ==
    \E q \in DistinctSeqs(TrackIds \ {1}, MaxQueue - 1), m \in 0..MaxLoopMode :
        /\ queues = Put(EmptyDict, DiscordChat, q)
        /\ current_songs = Put(EmptyDict, DiscordChat, 1)
        /\ loop_modes = Put(EmptyDict, DiscordChat, m)
        /\ playback_speeds = EmptyDict
        /\ voice_clients = Put(EmptyDict, DiscordChat, TRUE)
        /\ connected = [c \in Chats |-> c = DiscordChat]
        /\ player = [c \in Chats |-> IF c = DiscordChat THEN "playing"
                                     ELSE "none"]
        /\ playing = [c \in Chats |-> IF c = DiscordChat THEN 1 ELSE None]
        /\ after_calls = [c \in Chats |-> [live |-> 0, stale |-> 0]]
        /\ tasks = [c \in Chats |-> [live |-> 0, stale |-> 0]]
        /\ inflight = [c \in Chats |-> [t \in TrackIds |-> 0]]
        /\ searching = [c \in Chats |-> 0]
        /\ stopping = [c \in Chats |-> 0]
        /\ next_id = MaxTracks
        /\ settings_used = 0
        /\ InitUtils
        /\ scope = [chats |-> {DiscordChat}, plays |-> 0]
        /\ hist = [NoHist EXCEPT !.rec = TRUE, !.mode = m, !.current = 1,
                                  !.queue = q, !.popped = 1]

NextLoop ==
    \E c \in Chats :
        \/ track_ends(c)
        \/ after_playing(c, "live")
        \/ play_next_task(c, "live")
        \/ \E song \in TrackIds : play_next_started(c, song)
        \/ \E song \in TrackIds : play_next_failed(c, song)

\* a started track ends, and the event loop runs what is ready
SpecLoop == InitLoop /\ [][NextLoop]_vars /\ WF_vars(NextLoop)

\* ------------------------------------------------------------ properties
\* C1: with loop_mode 1 and no other operation, the track that was current
\* stays the current track over every completion and the queue is never
\* changed (every start succeeding).
C1_LoopOneReplaysCurrent ==
    (hist.mode = 1 /\ ~hist.failed) =>
        /\ CurrentOf(DiscordChat) = hist.current
        /\ QueueOf(DiscordChat) = hist.queue

\* C2: with loop_mode N in 3..10 and no other operation, each of the first
\* N completions makes the same track current again and the (N+1)-th makes
\* another track current or leaves the chat idle (every start succeeding).
C2_RepeatsExactlyN ==
    (hist.mode >= 3 /\ hist.mode <= MaxLoopMode /\ ~hist.failed
        /\ Settled(DiscordChat)) =>
        /\ hist.completions <= hist.mode =>
               CurrentOf(DiscordChat) = hist.current
        /\ hist.completions = hist.mode + 1 =>
               CurrentOf(DiscordChat) # hist.current

\* C3: starting from loop_mode N in 3..10, every completion while loop_mode
\* is not 0 decrements loop_mode by one and puts the finished track at the
\* head of the queue (so that loop_mode reaches 0).
C3_DecrementsToZero ==
    [][(/\ hist.mode >= 3 /\ hist.mode <= MaxLoopMode
        /\ after_playing(DiscordChat, "live")
        /\ LoopOf(DiscordChat) > 0
        /\ Has(current_songs, DiscordChat)) =>
          /\ LoopOf(DiscordChat)' = LoopOf(DiscordChat) - 1
          /\ QueueOf(DiscordChat)' =
                <<CurrentOf(DiscordChat)>> \o QueueOf(DiscordChat)]_vars

InitFifo ==
    /\ InitCommon
    /\ InitUtils
    /\ hist = [NoHist EXCEPT !.rec = TRUE, !.mode = 0]
    /\ scope \in [chats : {{DiscordChat}, {TelegramChat}},
                 plays : {MaxTracks}]

NextFifo ==
    \E c \in Chats :
        \/ \E joined \in BOOLEAN : search_and_play_begin(c, joined)
        \/ search_and_play_not_found(c)
        \/ search_and_play_found(c)
        \/ play_next_task(c, "live")
        \/ \E song \in TrackIds : play_next_started(c, song)
        \/ \E song \in TrackIds : play_next_failed(c, song)
        \/ track_ends(c)
        \/ after_playing(c, "live")
        \/ skip_song(c)
        \/ pause_playback(c)
        \/ resume_playback(c)

SpecFifo == InitFifo /\ [][NextFifo]_vars

\* C6: with loop mode off and no shuffle, set_speed or stop, the k-th track
\* to become current is the k-th track search_and_play enqueued.
C6_FifoOrder ==
    [][hist.popped' # hist.popped =>
          /\ hist.popped' = hist.popped + 1
          /\ \E c \in scope.chats : CurrentOf(c)' = hist.popped']_vars

\* the last of MaxTracks enqueued tracks is current after the others ended
C6_Witness ==
    /\ hist.mode = 0 /\ hist.rec /\ ~hist.failed
    /\ hist.completions >= 2
    /\ hist.popped = MaxTracks
    /\ next_id = MaxTracks
    /\ \E c \in scope.chats : CurrentOf(c) = MaxTracks /\ Settled(c)

\* ------------------------------------------------------------- scenario
\* Three play requests on an idle Discord chat, then one skip while the
\* first track plays, then loop mode 2 (by value or by the toggle) once the
\* second track is current, then track ends; every start succeeds.  The
\* chat may or may not be in a voice channel already, and may carry a speed
\* or an explicit loop mode 0 from earlier use.
InitScenario ==
    /\ queues = EmptyDict
    /\ current_songs = EmptyDict
    /\ loop_modes \in {EmptyDict, Put(EmptyDict, DiscordChat, 0)}
    /\ playback_speeds \in {EmptyDict, Put(EmptyDict, DiscordChat, Speed(15))}
    /\ voice_clients = EmptyDict
    /\ connected \in {[c \in Chats |-> FALSE],
                      [c \in Chats |-> c = DiscordChat]}
    /\ player = [c \in Chats |-> "none"]
    /\ playing = [c \in Chats |-> None]
    /\ after_calls = [c \in Chats |-> [live |-> 0, stale |-> 0]]
    /\ tasks = [c \in Chats |-> [live |-> 0, stale |-> 0]]
    /\ inflight = [c \in Chats |-> [t \in TrackIds |-> 0]]
    /\ searching = [c \in Chats |-> 0]
    /\ stopping = [c \in Chats |-> 0]
    /\ next_id = 0
    /\ settings_used = 0
    /\ InitUtils
    /\ hist = [NoHist EXCEPT !.rec = TRUE, !.mode = 0]
    /\ scope = [chats |-> {DiscordChat}, plays |-> 3]

scn_skip(c) ==
    /\ next_id = 3 /\ searching[c] = 0
    /\ hist.skips = 0
    /\ is_playing(c) /\ playing[c] = 1
    /\ skip_song(c)

scn_set_loop(c) ==
    /\ hist.skips = 1 /\ LoopOf(c) = 0
    /\ CurrentOf(c) = 2
    /\ \E mode \in {2, NoMode} : set_loop_mode(c, mode)

scn_track_ends(c) ==
    /\ LoopOf(c) = 2
    /\ track_ends(c)

NextScenario ==
    \E c \in Chats :
        \/ \E joined \in BOOLEAN : search_and_play_begin(c, joined)
        \/ search_and_play_found(c)
        \/ play_next_task(c, "live")
        \/ \E song \in TrackIds : play_next_started(c, song)
        \/ after_playing(c, "live")
        \/ scn_skip(c)
        \/ scn_set_loop(c)
        \/ scn_track_ends(c)

SpecScenario == InitScenario /\ [][NextScenario]_vars /\ WF_vars(NextScenario)

InQueue(c, t) == \E i \in 1..Len(QueueOf(c)) : QueueOf(c)[i] = t

\* C8: tracks 1, 2, 3 enqueued on an idle chat give current 1 and queue
\* <<2, 3>>; the skip gives current 2 and queue <<3>> and track 1 is not
\* added again; after loop mode 2 is set the current track alternates
\* between 3 and 2 for ever and track 1 is never current again.
C8_SkipThenQueueLoop ==
    /\ []((next_id = 3 /\ hist.skips = 0 /\ Settled(DiscordChat)) =>
            CurrentOf(DiscordChat) = 1 /\ QueueOf(DiscordChat) = <<2, 3>>)
    /\ []((hist.skips = 1 /\ LoopOf(DiscordChat) = 0
              /\ Settled(DiscordChat)) =>
            CurrentOf(DiscordChat) = 2 /\ QueueOf(DiscordChat) = <<3>>)
    /\ []((hist.skips = 1 /\ hist.popped >= 2) =>
            CurrentOf(DiscordChat) \in {2, 3} /\ ~InQueue(DiscordChat, 1))
    /\ [][(LoopOf(DiscordChat) = 2 /\ play_next_task(DiscordChat, "live")) =>
            {CurrentOf(DiscordChat), CurrentOf(DiscordChat)'} = {2, 3}]_vars
    /\ []<>(CurrentOf(DiscordChat) = 3)
    /\ []<>(CurrentOf(DiscordChat) = 2)

\* track 2 is playing again after the loop went round
C8_Witness ==
    /\ hist.skips = 1 /\ ~hist.failed
    /\ LoopOf(DiscordChat) = 2
    /\ hist.completions >= 3
    /\ Settled(DiscordChat)
    /\ is_playing(DiscordChat) /\ playing[DiscordChat] = 2
    /\ CurrentOf(DiscordChat) = 2 /\ QueueOf(DiscordChat) = <<3>>

\* --------------------------------------------------- properties under Spec
\* C5: a completion callback delivered after stop_playback cleared the chat,
\* and the _play_next task it creates, never make a track current and never
\* add a track to the queue, whatever ran in between.
C5_StaleCompletionIsNoOp ==
    [][\A c \in Chats :
          (after_playing(c, "stale") \/ play_next_task(c, "stale")) =>
              /\ Has(current_songs', c) => CurrentOf(c)' = CurrentOf(c)
              /\ Len(QueueOf(c)') <= Len(QueueOf(c))]_vars

\* a started track is playing: on Discord the stored voice client plays,
\* on Telegram the activation that made the track current has finished
TrackPlaying(c) ==
    IF Platform(c) = "discord" THEN Has(voice_clients, c) /\ is_playing(c)
    ELSE Has(current_songs, c) /\ InflightCount(c) = 0

\* C7: on both platforms skip_song while a track is playing does what a
\* natural end of the track does: it leaves the dictionaries alone and makes
\* the completion callback due, which applies the loop policy.
C7_SkipGoesThroughLoopPolicy ==
    [][\A c \in Chats :
          (skip_song(c) /\ TrackPlaying(c)) =>
              /\ UNCHANGED <<queues, current_songs, loop_modes>>
              /\ after_calls'[c].live = after_calls[c].live + 1]_vars

\* stop_playback returns: from disconnect(), or at once without voice client
stop_playback_returns(c) ==
    \/ stop_playback_disconnected(c)
    \/ stop_playback(c) /\ ~(Platform(c) = "discord" /\ Has(voice_clients, c))

\* C9: when stop_playback returns, the chat's queue is empty, it has no
\* current track, its loop mode reads 0 and no voice client is stored for
\* it; on a chat with no record at all it changes nothing.
C9_StopLeavesChatCleared ==
    [][\A c \in Chats :
          /\ stop_playback_returns(c) =>
                /\ QueueOf(c)' = <<>>
                /\ ~Has(current_songs', c)
                /\ LoopOf(c)' = 0
                /\ ~Has(voice_clients', c)
          /\ (stop_playback(c) /\ ~Has(queues, c) /\ ~Has(current_songs, c)
                /\ ~Has(loop_modes, c) /\ ~Has(voice_clients, c)) =>
                UNCHANGED <<program, driver>>]_vars

\* C10: set_playback_speed with a speed below 0.5 or above 2.0 returns
\* False and changes nothing, and every stored speed is within [0.5, 2.0].
C10_SpeedStaysInRange ==
    /\ [][\A c \in Chats : \A speed \in SpeedInputs :
            (set_playback_speed(c, speed) /\
                (SpeedLt(speed, Speed(SpeedMin)) \/
                 SpeedLt(Speed(SpeedMax), speed))) =>
                /\ ~set_playback_speed_returns(speed)
                /\ UNCHANGED <<program, driver>>]_vars
    /\ [](\A c \in DOMAIN playback_speeds :
            /\ SpeedLe(Speed(SpeedMin), playback_speeds[c])
            /\ SpeedLe(playback_speeds[c], Speed(SpeedMax)))

\* C11: every stored loop mode is an integer in 0..10; set_loop_mode with a
\* mode below 0 or above 10 returns the error message and leaves the loop
\* modes alone; the decrement of a completion stays within the range.
C11_LoopModeInRange ==
    /\ [](\A c \in DOMAIN loop_modes : loop_modes[c] \in 0..MaxLoopMode)
    /\ [][\A c \in Chats : \A mode \in LoopInputs :
            (set_loop_mode(c, mode) /\ mode # NoMode
                /\ (mode < 0 \/ mode > 10)) =>
                /\ set_loop_mode_returns(c, mode) = "error"
                /\ UNCHANGED <<program, driver>>]_vars
    /\ [][\A c \in Chats : \A kind \in Kinds :
            (after_playing(c, kind) /\ LoopOf(c) > 2) =>
                /\ LoopOf(c)' = LoopOf(c) - 1
                /\ LoopOf(c)' \in 0..MaxLoopMode]_vars

\* a completion has just decremented a repeat count to 2
C11_Witness ==
    /\ LoopOf(DiscordChat) = 2
    /\ Pending(tasks[DiscordChat]) > 0
    /\ Len(QueueOf(DiscordChat)) = 2
    /\ QueueOf(DiscordChat)[1] = CurrentOf(DiscordChat)
    /\ QueueOf(DiscordChat)[2] # CurrentOf(DiscordChat)

\* C12: a chat with no stored voice client has no current track (read in
\* states where nothing of the chat is in progress).
C12_NoHandleNoCurrent ==
    \A c \in Chats :
        (Settled(c) /\ ~Has(voice_clients, c)) => ~Has(current_songs, c)

\* C13: in every state of a chat where no completion callback is pending
\* and no _play_next is scheduled or in flight, the current track is not in
\* the chat's queue.
C13_CurrentNotQueued ==
    \A c \in Chats :
        (Settled(c) /\ Has(current_songs, c)) => ~InQueue(c, CurrentOf(c))

\* ------------------------------------------- a speed change while playing
\* The Discord chat of InitLoop (first track playing, any queue, any loop
\* mode) receives one set_playback_speed with a valid speed while the track
\* plays; then callbacks, tasks and starts run, and tracks end.
speed_change_while_playing(c) ==
    /\ hist.completions = 0
    /\ is_playing(c) /\ playing[c] = hist.current
    /\ \E speed \in {Speed(SpeedMin), Speed(15), Speed(SpeedMax)} :
          set_playback_speed(c, speed)

NextSpeed ==
    \E c \in Chats :
        \/ speed_change_while_playing(c)
        \/ track_ends(c)
        \/ after_playing(c, "live")
        \/ play_next_task(c, "live")
        \/ \E song \in TrackIds : play_next_started(c, song)

SpecSpeed == InitLoop /\ [][NextSpeed]_vars

\* C14: after set_playback_speed with a valid speed while track T plays,
\* the next track started is T, and once it has restarted the queue and the
\* loop mode are what they were before the call, for every loop mode.
C14_SpeedRestartsSameTrack ==
    (/\ Has(playback_speeds, DiscordChat)
     /\ hist.completions = 1
     /\ Settled(DiscordChat)
     /\ is_playing(DiscordChat)) =>
        /\ playing[DiscordChat] = hist.current
        /\ CurrentOf(DiscordChat) = hist.current
        /\ QueueOf(DiscordChat) = hist.queue
        /\ LoopOf(DiscordChat) = hist.mode

\* C15: one advance takes at most two tracks from the queue: the one it
\* starts and, if that start fails, one more.
C15_RetriesOnce ==
    \A t \in TrackIds : hist.depth[t] <= 2

\* stop_playback ran and returned while the one _play_next of chat c was
\* suspended: only stop_playback removes the chat's queue entry, which the
\* activation found present when it took its track
stopped_while_suspended(c) ==
    /\ InflightCount(c) = 1
    /\ ~Has(queues, c)
    /\ stopping[c] = 0

\* C16: when stop_playback was called while a _play_next of the chat was
\* suspended, then once both have finished the chat is idle: no current
\* track, empty queue, no stored voice client, nothing playing.
C16_StopDuringAdvanceLeavesIdle ==
    [][\A c \in Chats : \A song \in TrackIds :
          (/\ stopped_while_suspended(c)
           /\ play_next_started(c, song) \/ play_next_failed(c, song)) =>
              /\ ~Has(current_songs', c)
              /\ QueueOf(c)' = <<>>
              /\ ~Has(voice_clients', c)
              /\ player'[c] = "none"]_vars

\* C17: a chat loses its current track only by stop_playback or by a
\* completion that finds the queue empty while the loop mode is 0.
C17_IdleOnlyWhenLoopOff ==
    [][\A c \in Chats :
          (Has(current_songs, c) /\ ~Has(current_songs', c)) =>
              \/ stop_playback(c)
              \/ /\ \E kind \in Kinds : play_next_task(c, kind)
                 /\ QueueOf(c) = <<>>
                 /\ LoopOf(c) = 0]_vars

\* C18: search_and_play, once its track is resolved, appends the track to
\* the tail of the chat's queue; with no current track it advances at once,
\* so that this track is current and not queued; with a current track it
\* leaves current alone and the queue is one longer.
C18_EnqueueThenAdvanceIfIdle ==
    [][\A c \in Chats :
          search_and_play_found(c) =>
              LET song == next_id + 1 IN
              /\ next_id' = song
              /\ IF Has(current_songs, c)
                 THEN /\ CurrentOf(c)' = CurrentOf(c)
                      /\ QueueOf(c)' = Append(QueueOf(c), song)
                 ELSE /\ CurrentOf(c)' = song
                      /\ QueueOf(c)' = QueueOf(c)
                      /\ inflight'[c][song] = inflight[c][song] + 1]_vars

Count(q, t) == Cardinality({i \in 1..Len(q) : q[i] = t})

\* C19: shuffle_queue returns False exactly when the chat's queue is empty
\* or absent; in both cases the current track is unchanged and the queue
\* holds the same tracks, each as often as before.
C19_ShuffleKeepsTracks ==
    [][\A c \in Chats :
          shuffle_queue(c) =>
              /\ shuffle_queue_returns(c) <=> QueueOf(c) # <<>>
              /\ UNCHANGED current_songs
              /\ Len(QueueOf(c)') = Len(QueueOf(c))
              /\ \A t \in TrackIds :
                    Count(QueueOf(c)', t) = Count(QueueOf(c), t)]_vars

\* a queue of two tracks has been put in the other order (the loop mode was
\* never set, so no completion re-queued a track)
C19_Witness ==
    \E c \in Chats :
        /\ ~Has(loop_modes, c)
        /\ Has(playback_speeds, c)
        /\ CurrentOf(c) = 1
        /\ QueueOf(c) = <<2, 1>>

\* C20: a search_and_play whose lookup finds nothing raises and leaves the
\* chat's queued tracks, current track, loop mode and speed as they were,
\* and starts no advance; so does its first part, before the lookup.
C20_NotFoundChangesNothing ==
    [][\A c \in Chats :
          ((\E joined \in BOOLEAN : search_and_play_begin(c, joined))
              \/ search_and_play_not_found(c)) =>
              /\ QueueOf(c)' = QueueOf(c)
              /\ UNCHANGED <<current_songs, loop_modes, playback_speeds>>
              /\ UNCHANGED <<inflight, tasks, after_calls, player, playing,
                             next_id>>]_vars

\* a lookup on a chat with no record has ended without a track: the queue
\* entry exists, and no track was ever created
C20_Witness ==
    \E c \in Chats :
        /\ Has(queues, c) /\ queues[c] = <<>>
        /\ ~Has(current_songs, c)
        /\ next_id = 0
        /\ searching[c] = 0

\* ------------------------------------------------- two chats at the same time
\* Both chats receive every operation of Next, in any interleaving; the play
\* requests that arrive are shared between them.
InitBoth ==
    /\ InitCommon
    /\ InitUtils
    /\ hist = NoHist
    /\ scope = [chats |-> Chats, plays |-> Min(MaxPlays, MaxTracks)]

SpecBoth == InitBoth /\ [][Next]_vars

\* a step of a handler, callback or task of chat c
operation_on(c) ==
    \/ \E joined \in BOOLEAN : search_and_play_begin(c, joined)
    \/ search_and_play_not_found(c)
    \/ search_and_play_found(c)
    \/ \E kind \in Kinds : play_next_task(c, kind)
    \/ \E song \in TrackIds : play_next_started(c, song)
    \/ \E song \in TrackIds : play_next_failed(c, song)
    \/ track_ends(c)
    \/ \E kind \in Kinds : after_playing(c, kind)
    \/ skip_song(c)
    \/ stop_playback(c)
    \/ stop_playback_disconnected(c)
    \/ pause_playback(c)
    \/ resume_playback(c)
    \/ \E mode \in LoopInputs : set_loop_mode(c, mode)
    \/ \E speed \in SpeedInputs : set_playback_speed(c, speed)
    \/ shuffle_queue(c)

\* everything the handler and the driver hold for chat c
chat_state(c) ==
    [queues |-> IF Has(queues, c) THEN <<queues[c]>> ELSE <<>>,
     current_songs |-> IF Has(current_songs, c) THEN <<current_songs[c]>>
                       ELSE <<>>,
     loop_modes |-> IF Has(loop_modes, c) THEN <<loop_modes[c]>> ELSE <<>>,
     playback_speeds |-> IF Has(playback_speeds, c)
                         THEN <<playback_speeds[c]>> ELSE <<>>,
     voice_clients |-> IF Has(voice_clients, c) THEN <<voice_clients[c]>>
                       ELSE <<>>,
     connected |-> connected[c], player |-> player[c],
     playing |-> playing[c]]

\* C21: a step of any operation on chat x leaves the queue, current track,
\* loop mode, speed and voice client of every other chat y as they were, in
\* every interleaving of operations on the two chats.
C21_OtherChatsUntouched ==
    [][\A x \in Chats : \A y \in Chats \ {x} :
          operation_on(x) => chat_state(y)' = chat_state(y)]_vars

\* the Telegram chat was stopped while its track was being started, and the
\* Discord chat still plays its own track
C21_Witness ==
    /\ CurrentOf(DiscordChat) = 1
    /\ is_playing(DiscordChat) /\ playing[DiscordChat] = 1
    /\ Has(queues, DiscordChat)
    /\ ~Has(queues, TelegramChat)
    /\ inflight[TelegramChat][2] = 1

\* C22: skip_song while nothing is playing (and nothing of the chat is in
\* progress) does what an advance does: with a non-empty queue the head
\* becomes the current track and leaves the queue, with an empty queue the
\* chat has no current track afterwards.
C22_SkipWhenIdleAdvances ==
    [][\A c \in Chats :
          (/\ skip_song(c)
           /\ Settled(c) /\ player[c] = "none"
           /\ Platform(c) = "discord") =>
              IF QueueOf(c) # <<>>
              THEN /\ CurrentOf(c)' = Head(QueueOf(c))
                   /\ QueueOf(c)' = Tail(QueueOf(c))
              ELSE ~Has(current_songs', c)]_vars

\* C23: for each chat at most one _play_next is between taking the head of
\* the queue as current track and handing it to the driver.
C23_OneAdvanceInFlight ==
    \A c \in Chats : InflightCount(c) <= 1

\* C24: whenever the driver plays or has paused a track for a chat, the
\* chat has a current track and it is the track handed to the driver.
C24_PlayingIsCurrent ==
    \A c \in Chats :
        (is_playing(c) \/ is_paused(c)) =>
            Has(current_songs, c) /\ current_songs[c] = playing[c]

\* C25: with loop mode off a chat is never stuck: it never holds queued
\* tracks while nothing is playing or paused, no _play_next is scheduled or
\* in flight, no completion is pending and no request is being resolved
\* (in such a state no callback or task is left that could start them).
C25_NeverStuck ==
    \A c \in Chats :
        (Platform(c) = "discord" /\ Settled(c) /\ player[c] = "none") =>
            QueueOf(c) = <<>>

\* -------------------------------------------------- every start fails
\* A chat of either platform with any queue of up to MaxQueue + 1 tracks
\* (repetitions allowed), any loop mode and nothing playing; skip_song
\* starts an advance, and every start fails.
AllQueues(n) == UNION {[1..k -> TrackIds] : k \in 0..n}

InitFail ==
    \E c \in Chats, q \in AllQueues(MaxQueue + 1), m \in 0..MaxLoopMode :
        /\ queues = Put(EmptyDict, c, q)
        /\ current_songs = EmptyDict
        /\ loop_modes = Put(EmptyDict, c, m)
        /\ playback_speeds = EmptyDict
        /\ voice_clients = EmptyDict
        /\ connected = [x \in Chats |-> FALSE]
        /\ player = [x \in Chats |-> "none"]
        /\ playing = [x \in Chats |-> None]
        /\ after_calls = [x \in Chats |-> [live |-> 0, stale |-> 0]]
        /\ tasks = [x \in Chats |-> [live |-> 0, stale |-> 0]]
        /\ inflight = [x \in Chats |-> [t \in TrackIds |-> 0]]
        /\ searching = [x \in Chats |-> 0]
        /\ stopping = [x \in Chats |-> 0]
        /\ next_id = MaxTracks
        /\ settings_used = 0
        /\ InitUtils
        /\ scope = [chats |-> {c}, plays |-> 0]
        /\ hist = [NoHist EXCEPT !.rec = TRUE, !.mode = m, !.queue = q]

NextFail ==
    \E c \in Chats :
        \/ skip_song(c)
        \/ \E song \in TrackIds : play_next_failed(c, song)

\* a suspended _play_next is resumed, here always with an exception
SpecFail ==
    /\ InitFail
    /\ [][NextFail]_vars
    /\ \A c \in Chats :
          WF_vars(\E song \in TrackIds : play_next_failed(c, song))

\* C26: when every start fails, each failure takes exactly the head off the
\* queue (and puts nothing back, whatever the loop mode), every track of the
\* queue is taken once, and the chain of retries ends, with the queue empty.
C26_FailuresDrainQueue ==
    /\ [][\A c \in Chats : \A song \in TrackIds :
            play_next_failed(c, song) =>
                QueueOf(c)' = IF QueueOf(c) = <<>> THEN <<>>
                              ELSE Tail(QueueOf(c))]_vars
    /\ [](\A c \in scope.chats :
            Len(QueueOf(c)) + hist.popped = Len(hist.queue))
    /\ [](\A c \in scope.chats :
            (hist.popped > 0 /\ InflightCount(c) = 0) => QueueOf(c) = <<>>)
    /\ \A c \in Chats :
          (InflightCount(c) > 0) ~>
              (InflightCount(c) = 0 /\ QueueOf(c) = <<>>)

\* three starts in a row have failed and the chain has ended
C26_Witness ==
    \E c \in scope.chats :
        /\ Len(hist.queue) = 3 /\ hist.popped = 3 /\ hist.failed
        /\ InflightCount(c) = 0
        /\ QueueOf(c) = <<>>
        /\ CurrentOf(c) = hist.queue[3]
        /\ LoopOf(c) = hist.mode

\* ------------------------------------------------ the loop toggle
\* loop_command is called without a mode by the loop commands given no
\* argument (their ctx is the command's own context) and by the Loop button
\* of a Telegram message, whose ctx is the mock context button_callback
\* builds with the attributes message and effective_user only.
Contexts == {"command", "button"}

\* _get_chat_id reads ctx.effective_chat for Telegram: AttributeError on the
\* mock context
get_chat_id_raises(c, ctx) == Platform(c) = "telegram" /\ ctx = "button"

\* loop_command(ctx, None): set_loop_mode with mode None
loop_toggle(c, ctx) ==
    /\ c \in scope.chats
    /\ UNCHANGED utils
    /\ ctx = "button" => Platform(c) = "telegram"
    /\ hist' = [hist EXCEPT !.toggles = Min(@ + 1, 2)]
    /\ IF get_chat_id_raises(c, ctx)
       THEN UNCHANGED loop_modes
       ELSE loop_modes' = Put(loop_modes, c, toggled_mode(c, NoMode))
    /\ UNCHANGED <<queues, current_songs, playback_speeds, voice_clients,
                   driver, after_calls, tasks, inflight, searching, stopping,
                   next_id, scope, settings_used>>

\* a chat of either platform holding any queue, any or no current track and
\* any or no loop mode, nothing playing
InitToggle ==
    \E c \in Chats, q \in AllQueues(MaxQueue), t \in {None} \cup TrackIds :
        /\ queues = Put(EmptyDict, c, q)
        /\ current_songs = IF t = None THEN EmptyDict
                           ELSE Put(EmptyDict, c, t)
        /\ loop_modes \in {EmptyDict} \cup
               {Put(EmptyDict, c, m) : m \in 0..MaxLoopMode}
        /\ playback_speeds \in {EmptyDict, Put(EmptyDict, c, Speed(15))}
        /\ voice_clients = EmptyDict
        /\ connected = [x \in Chats |-> FALSE]
        /\ player = [x \in Chats |-> "none"]
        /\ playing = [x \in Chats |-> None]
        /\ after_calls = [x \in Chats |-> [live |-> 0, stale |-> 0]]
        /\ tasks = [x \in Chats |-> [live |-> 0, stale |-> 0]]
        /\ inflight = [x \in Chats |-> [s \in TrackIds |-> 0]]
        /\ searching = [x \in Chats |-> 0]
        /\ stopping = [x \in Chats |-> 0]
        /\ next_id = MaxTracks
        /\ settings_used = 0
        /\ InitUtils
        /\ scope = [chats |-> {c}, plays |-> 0]
        /\ hist = [NoHist EXCEPT !.rec = TRUE]

NextToggle == \E c \in Chats : \E ctx \in Contexts : loop_toggle(c, ctx)

SpecToggle == InitToggle /\ [][NextToggle]_vars

\* C27: every call of set_loop_mode without a mode sets loop mode 2 if the
\* loop mode was 0 and 0 otherwise (so that two calls starting from 0 give
\* 0 again), and changes neither queue nor current track nor speed.
C27_ToggleFlipsLoopMode ==
    [][\A c \in Chats : \A ctx \in Contexts :
          loop_toggle(c, ctx) =>
              /\ LoopOf(c)' = IF LoopOf(c) = 0 THEN 2 ELSE 0
              /\ UNCHANGED <<queues, current_songs, playback_speeds>>]_vars

\* ------------------------------------------------ stop with a speed stored
\* A chat whose speed was set earlier (1.5) receives every operation of Next
\* except set_playback_speed, so the stored speed dates from before any
\* stop_playback of the behaviour.
InitStop ==
    /\ queues = EmptyDict
    /\ current_songs = EmptyDict
    /\ loop_modes = EmptyDict
    /\ \E c \in Chats :
          /\ playback_speeds = Put(EmptyDict, c, Speed(15))
          /\ scope = [chats |-> {c}, plays |-> Min(MaxPlays, MaxTracks)]
    /\ voice_clients = EmptyDict
    /\ connected = [c \in Chats |-> FALSE]
    /\ player = [c \in Chats |-> "none"]
    /\ playing = [c \in Chats |-> None]
    /\ after_calls = [c \in Chats |-> [live |-> 0, stale |-> 0]]
    /\ tasks = [c \in Chats |-> [live |-> 0, stale |-> 0]]
    /\ inflight = [c \in Chats |-> [t \in TrackIds |-> 0]]
    /\ searching = [c \in Chats |-> 0]
    /\ stopping = [c \in Chats |-> 0]
    /\ next_id = 0
    /\ settings_used = 0
    /\ InitUtils
    /\ hist = NoHist

NextStop ==
    \E c \in Chats :
        \/ \E joined \in BOOLEAN : search_and_play_begin(c, joined)
        \/ search_and_play_not_found(c)
        \/ search_and_play_found(c)
        \/ \E kind \in Kinds : play_next_task(c, kind)
        \/ \E song \in TrackIds : play_next_started(c, song)
        \/ \E song \in TrackIds : play_next_failed(c, song)
        \/ track_ends(c)
        \/ \E kind \in Kinds : after_playing(c, kind)
        \/ skip_song(c)
        \/ stop_playback(c)
        \/ stop_playback_disconnected(c)
        \/ pause_playback(c)
        \/ resume_playback(c)
        \/ \E mode \in LoopInputs : set_loop_mode(c, mode)
        \/ shuffle_queue(c)

SpecStop == InitStop /\ [][NextStop]_vars

\* speed = self.playback_speeds.get(chat_id, 1.0): the speed _play_discord
\* puts into the atempo filter of a track it starts (_play_telegram reads
\* the same value)
applied_speed(c) == SpeedOf(c)

\* C28: stop_playback, in both of its parts, leaves the stored speed of the
\* chat alone: get_queue returns the same speed after as before, a start
\* that follows applies that speed, and the loop mode reads 0 once the
\* dictionaries are cleared.
C28_StopKeepsSpeed ==
    /\ [][\A c \in Chats :
            (stop_playback(c) \/ stop_playback_disconnected(c)) =>
                /\ UNCHANGED playback_speeds
                /\ get_queue(c)'.speed = get_queue(c).speed
                /\ applied_speed(c)' = applied_speed(c)
                /\ stop_playback(c) => get_queue(c)'.loop_mode = 0]_vars
    /\ [](\A c \in scope.chats :
            get_queue(c).speed = Speed(15) /\ applied_speed(c) = Speed(15))

\* the second track plays after a stop_playback that had a loop mode to
\* reset; the speed stored before is the one applied
C28_Witness ==
    /\ applied_speed(DiscordChat) = Speed(15)
    /\ settings_used = 1 /\ ~Has(loop_modes, DiscordChat)
    /\ stopping[DiscordChat] = 0
    /\ is_playing(DiscordChat) /\ playing[DiscordChat] = 2
    /\ CurrentOf(DiscordChat) = 2

\* ------------------------------------------------------ check_permissions
admin_commands ==
    {"stats", "broadcast", "gban", "ungban", "auth", "unauth", "maintenance",
     "logs", "blacklistchat", "whitelistchat"}
sudoer_commands == {"logs", "maintenance", "broadcast"}
Commands == admin_commands \cup {"play", "help"}

\* the value check_permissions returns for a user who is or is not globally
\* banned (db.is_globally_banned), authorized (db.is_authorized) and a
\* sudoer (config.is_sudoer), with the given MAINTENANCE_MODE
check_permissions(banned, maintenance, authorized, sudoer, command) ==
    IF banned THEN FALSE
    ELSE IF maintenance /\ ~sudoer THEN FALSE
    ELSE IF command \in admin_commands THEN authorized \/ sudoer
    ELSE IF command \in sudoer_commands THEN sudoer
    ELSE TRUE

\* any user, any command, any maintenance mode; nothing returned yet
InitPermissions ==
    /\ InitCommon
    /\ hist = NoHist
    /\ scope = [chats |-> {}, plays |-> 0]
    /\ rate_limits = EmptyDict
    /\ current_time = 0
    /\ calls = EmptyDict
    /\ last_call \in [fn : {"check_permissions"}, banned : BOOLEAN,
                      maintenance : BOOLEAN, authorized : BOOLEAN,
                      sudoer : BOOLEAN, command : Commands,
                      done : {FALSE}, returned : {FALSE}]

check_permissions_returns ==
    /\ last_call.fn = "check_permissions"
    /\ ~last_call.done
    /\ last_call' = [last_call EXCEPT !.done = TRUE, !.returned =
           check_permissions(last_call.banned, last_call.maintenance,
                             last_call.authorized, last_call.sudoer,
                             last_call.command)]
    /\ UNCHANGED <<music, rate_limits, current_time, calls>>

NextPermissions == check_permissions_returns

SpecPermissions == InitPermissions /\ [][NextPermissions]_vars

\* C29: check_permissions returns False for logs, maintenance and broadcast
\* for every user who is not a sudoer, authorized or not, and False for
\* every command for a globally banned user.
C29_SudoerOnlyCommands ==
    (last_call.fn = "check_permissions" /\ last_call.done) =>
        /\ (last_call.command \in sudoer_commands /\ ~last_call.sudoer) =>
               last_call.returned = FALSE
        /\ last_call.banned => last_call.returned = FALSE

\* ------------------------------------------------------- check_rate_limit
\* RATE_LIMIT_ENABLED is true (the default).  One user calls with and
\* without a command name, at any times.
RateUsers == {1}
RateCommands == {"", "play"}

\* user_key = f"{user_id}_{command}" if command else str(user_id)
user_key(user_id, command) ==
    IF command # "" THEN <<user_id, command>> ELSE <<user_id>>

limit_never(n) == FALSE

\* current_time - timestamp < 60
is_recent(now, timestamp) == now - timestamp < RateWindow

\* len(self.rate_limits[user_key]) >= self.config.MAX_COMMANDS_PER_MINUTE
limit_reached(n) == n >= MaxCommandsPerMinute

\* the list check_rate_limit keeps for the key before it tests the limit
kept_timestamps(key) ==
    LET recent(timestamp) == is_recent(current_time, timestamp)
    IN IF Has(rate_limits, key) THEN SelectSeq(rate_limits[key], recent)
       ELSE <<>>

\* the value check_rate_limit returns
check_rate_limit_returns(user_id, command) ==
    ~limit_reached(Len(kept_timestamps(user_key(user_id, command))))

\* history: a call is recorded unless it repeats the rejection recorded last
Recorded(h, call) == IF h # <<>> /\ h[Len(h)] = call /\ ~call.returned
                     THEN h ELSE Append(h, call)

check_rate_limit(user_id, command) ==
    LET key == user_key(user_id, command)
        kept == kept_timestamps(key)
        returned == check_rate_limit_returns(user_id, command)
    IN /\ rate_limits' = Put(rate_limits, key,
              IF returned THEN Append(kept, current_time) ELSE kept)
       /\ calls' = Put(calls, key,
              Recorded(Get(calls, key, <<>>),
                       [at |-> current_time, returned |-> returned]))
       /\ last_call' = [fn |-> "check_rate_limit", key |-> key,
                        returned |-> returned]
       /\ UNCHANGED <<music, current_time>>

time_passes ==
    /\ current_time < MaxClock
    /\ current_time' = current_time + 1
    /\ UNCHANGED <<music, rate_limits, calls, last_call>>

InitRate ==
    /\ InitCommon
    /\ hist = NoHist
    /\ scope = [chats |-> {}, plays |-> 0]
    /\ InitUtils

NextRate ==
    \/ time_passes
    \/ \E user_id \in RateUsers, command \in RateCommands :
          check_rate_limit(user_id, command)

SpecRate == InitRate /\ [][NextRate]_vars

RateKeys == {user_key(u, cmd) : u \in RateUsers, cmd \in RateCommands}

\* calls of the key that returned True at a time within from..to
AcceptedWithin(key, from, to) ==
    LET h == Get(calls, key, <<>>)
    IN Cardinality({i \in 1..Len(h) :
                       h[i].returned /\ h[i].at >= from /\ h[i].at <= to})

\* C30: for every key at most MAX_COMMANDS_PER_MINUTE calls return True
\* within any window of 60 seconds; a call that returns False records no
\* timestamp; and a call returns True exactly when fewer than
\* MAX_COMMANDS_PER_MINUTE accepted calls lie less than 60 seconds back.
C30_RateLimitWindow ==
    /\ [](\A key \in RateKeys : \A t \in 0..MaxClock :
            AcceptedWithin(key, t, t + RateWindow - 1)
                <= MaxCommandsPerMinute)
    /\ [][\A u \in RateUsers : \A cmd \in RateCommands :
            (check_rate_limit(u, cmd) /\ ~check_rate_limit_returns(u, cmd))
                => /\ rate_limits'[user_key(u, cmd)] =
                          kept_timestamps(user_key(u, cmd))
                   /\ Len(rate_limits'[user_key(u, cmd)]) <=
                          Len(Get(rate_limits, user_key(u, cmd), <<>>))]_vars
    /\ [](\A u \in RateUsers : \A cmd \in RateCommands :
            check_rate_limit_returns(u, cmd) <=>
                AcceptedWithin(user_key(u, cmd),
                               current_time - RateWindow + 1, current_time)
                    < MaxCommandsPerMinute)

\* a key that was rejected has been accepted again, later
C30_Witness ==
    \E key \in RateKeys :
        /\ Has(calls, key)
        /\ last_call = [fn |-> "check_rate_limit", key |-> key,
                        returned |-> TRUE]
        /\ \E i \in 1..Len(calls[key]) :
              /\ ~calls[key][i].returned
              /\ calls[key][i].at < current_time
        /\ Len(rate_limits[key]) <= MaxCommandsPerMinute
====
